---- MODULE Spec2Model ----
(***************************************************************************)
(* Model of sqlalchemy_multidb_manager: the per-database engine cache      *)
(* (src/db_cacher.py, IndividualTTLCache) with its cleanup thread, and the *)
(* session factory (src/db_factory.py, DatabaseManager).                   *)
(*                                                                         *)
(* Python values: None is the empty tuple << >>, an optional value v is    *)
(* <<v>>; the one-element tuples the constructor builds (lines 38-39 of    *)
(* db_factory.py end in a comma) are one-element sequences too.            *)
(* Engines built by create_engine are numbered 1, 2, ... in the order they *)
(* are built; engines a caller of the cache hands to __setitem__ itself    *)
(* are the negative handles of PoolOf.                                     *)
(*                                                                         *)
(* Threads: the cleanup thread started by IndividualTTLCache.__init__ and  *)
(* the foreground callers run concurrently; the mapping has no lock, so a  *)
(* thread switch can fall between any two steps below (one step is what    *)
(* CPython executes atomically under the interpreter lock: one dict        *)
(* operation, one read of the clock).                                      *)
(***************************************************************************)
EXTENDS Integers, Sequences, FiniteSets, TLC

\* ---------------------------------------------------------------- bounds
MaxTime == 60
MaxFine == 0
MaxCalls == 3
MaxPools == 2
MaxSessions == 2
MaxChurn == 10
MaxLiveTime == 120

\* ------------------------------------------------------ program constants
SweepInterval == 60
MaxOverflow == 10
DefaultMainPoolsize == 15
DefaultMainRecycle == 900
DefaultRegularPoolsize == 5
DefaultRegularRecycle == 300
DefaultMaxsize == 10
DefaultTTL == 900
DictMinSize == 8

None == << >>
Some(v) == <<v>>

Callers == {"c1", "c2"}
Keys == {"main", "tenant7"}
DbNames == {"main", "Main", "tenant7"}
TTLs == {1, 900}
MaxSizes == {1}
TickSteps == {1, SweepInterval}
PoolsizeArgs == {None, Some(0), Some(15), Some(16)}
RecycleArgs == {None, Some(0), Some(900), Some(100)}
RegularPoolsizeArgs == {None, Some(0), Some(5), Some(7)}
RegularRecycleArgs == {None, Some(0), Some(300)}

VARIABLES
    connections,    \* IndividualTTLCache._connections: key -> [db_pool, life_time]
    slots,          \* the dict's entry table: keys in insertion order, Tomb where one was deleted
    usable,         \* the dict's entry slots still free before it is rebuilt
    default_ttl,    \* IndividualTTLCache._default_ttl
    maxsize,        \* IndividualTTLCache._maxsize
    now,            \* what time.time() returns
    sweep,          \* the cleanup thread: its position and its locals
    set_since,      \* history: the keys stored since the running pass read the clock
    pc,             \* per caller: position inside the running call
    frame,          \* per caller: the running call's arguments and locals
    ret,            \* how the call that ended last ended: its caller, result, error
    ncalls,         \* number of foreground calls started
    budget,         \* number of foreground calls the run may start
    engines,        \* the engines create_engine has built, in order
    args,           \* the arguments DatabaseManager.__init__ is called with
    mgr,            \* the DatabaseManager's fields
    disposed        \* the engines whose dispose() was called (their pools closed)

vars == <<connections, slots, usable, default_ttl, maxsize, now, sweep, set_since,
          pc, frame, ret, ncalls, budget, engines, args, mgr, disposed>>


\* ------------------------------------------------------------ Python values
\* bool(x) of an `int | None` argument: None and 0 are falsy.
Falsy(x) == x = None \/ x = Some(0)

\* int(a / 3): true division, then truncation toward zero.
IntDiv3(a) == IF a >= 0 THEN a \div 3 ELSE -((-a) \div 3)

IdleFrame == [op |-> "none", key |-> "", pool |-> None, t |-> 0]
\* How a call ended: val is what it returned, err the error that left it ("" for
\* none); connects lists the engines whose connect() the call called, in order,
\* and raised is the error that db_pool.connect() or the session maker raised.
NoReturn == [by |-> "", op |-> "none", key |-> "", val |-> None, err |-> "",
             connects |-> << >>, raised |-> ""]
Return(c, o, k, v) == [NoReturn EXCEPT !.by = c, !.op = o, !.key = k, !.val = v]
Raise(c, o, k, e) == [NoReturn EXCEPT !.by = c, !.op = o, !.key = k, !.err = e]

\* ------------------------------------------------- IndividualTTLCache (dict)
\* get: self._connections.get(name), then .db_pool of a found entry, else None.
get(conns, k) == IF k \in DOMAIN conns THEN Some(conns[k].db_pool) ELSE None

\* The timestamp __setitem__ stores beside the engine, from the clock value t
\* that time.time() returned and the cache's ttl.
life_time_of(t, ttl) == t

\* a store that makes room first: a new key arriving at a mapping that holds
\* maxsize entries replaces them
setitem_bounded(conns, k, pool, stamp) ==
    [x \in (IF k \notin DOMAIN conns /\ Cardinality(DOMAIN conns) >= maxsize
            THEN {} ELSE DOMAIN conns) \cup {k} |->
        IF x = k THEN [db_pool |-> pool, life_time |-> stamp] ELSE conns[x]]

\* self._connections[name] = db_pool(queue_pool, time.time())
setitem(conns, k, pool, stamp) ==
    [x \in DOMAIN conns \cup {k} |->
        IF x = k THEN [db_pool |-> pool, life_time |-> stamp] ELSE conns[x]]

\* a del that empties the mapping
delitem_all(conns, k) == << >>

\* del self._connections[name] (the key is present)
delitem(conns, k) == [x \in DOMAIN conns \ {k} |-> conns[x]]

\* the filter of the list comprehension in cleanup_expired_items
IsExpired(entry, current_time) == entry.life_time < current_time

\* ---- the dict's entry table (CPython): a new key takes the next free slot, a
\* deleted key leaves its slot empty, an overwrite keeps its slot.  A new key that
\* finds no free slot has the table rebuilt first: the live entries are packed to
\* the front of a table sized for three times their number.
Tomb == ""

Live(sl) == SelectSeq(sl, LAMBDA x : x # Tomb)

\* the table size for `minsize` entries: the power of two from 8 up
KeySize(minsize) == IF minsize <= DictMinSize THEN DictMinSize
                    ELSE IF minsize <= 2 * DictMinSize THEN 2 * DictMinSize
                    ELSE 4 * DictMinSize

\* the entry slots of a table of that size: two thirds
UsableFraction(size) == (2 * size) \div 3

SlotsAfterSet(sl, us, k) ==
    IF \E i \in 1..Len(sl) : sl[i] = k THEN sl
    ELSE IF us > 0 THEN Append(sl, k)
    ELSE Append(Live(sl), k)

UsableAfterSet(sl, us, k) ==
    IF \E i \in 1..Len(sl) : sl[i] = k THEN us
    ELSE IF us > 0 THEN us - 1
    ELSE UsableFraction(KeySize(3 * Len(Live(sl)))) - Len(Live(sl)) - 1

SlotsAfterDel(sl, k) == [i \in 1..Len(sl) |-> IF sl[i] = k THEN Tomb ELSE sl[i]]

SweepIdle(p) ==
    [pc |-> p, current_time |-> 0, it_used |-> 0, it_pos |-> 0, it_len |-> 0,
     keys_to_delete |-> << >>, wake_at |-> 0, err |-> ""]

SweepCrash(e) == [SweepIdle("crashed") EXCEPT !.err = e]

\* the engine a caller of the cache hands to __setitem__: each caller its own
PoolOf(c) == IF c = "c1" THEN -1 ELSE -2

\* ------------------------------------------------------------ foreground: get
\* a get that renews the entry's timestamp (sliding expiration)
GetTouching(c, k) ==
    /\ pc[c] = "idle" /\ ncalls < budget
    /\ ncalls' = ncalls + 1
    /\ ret' = Return(c, "get", k, get(connections, k))
    /\ connections' = [x \in DOMAIN connections |->
                          IF x = k THEN [connections[x] EXCEPT !.life_time = now]
                          ELSE connections[x]]
    /\ UNCHANGED <<disposed, slots, usable, default_ttl, maxsize, now, sweep, set_since,
                   pc, frame, budget, engines, args, mgr>>

\* a get that answers None for an entry whose timestamp has passed
GetUnlessExpired(c, k) ==
    /\ pc[c] = "idle" /\ ncalls < budget
    /\ ncalls' = ncalls + 1
    /\ ret' = Return(c, "get", k,
                     IF k \in DOMAIN connections /\ IsExpired(connections[k], now)
                     THEN None ELSE get(connections, k))
    /\ UNCHANGED <<disposed, connections, slots, usable, default_ttl, maxsize, now, sweep, set_since,
                   pc, frame, budget, engines, args, mgr>>

Get(c, k) ==
    /\ pc[c] = "idle" /\ ncalls < budget
    /\ ncalls' = ncalls + 1
    /\ ret' = Return(c, "get", k, get(connections, k))
    /\ UNCHANGED <<disposed, connections, slots, usable, default_ttl, maxsize, now, sweep, set_since,
                   pc, frame, budget, engines, args, mgr>>

\* ------------------------------------------------------ foreground: __setitem__
\* time.time() is evaluated first, the store into the dict follows.
SetTime(c, k, p) ==
    /\ pc[c] = "idle" /\ ncalls < budget
    /\ ncalls' = ncalls + 1
    /\ frame' = [frame EXCEPT ![c] = [op |-> "set", key |-> k, pool |-> Some(p), t |-> now]]
    /\ pc' = [pc EXCEPT ![c] = "set_store"]
    /\ UNCHANGED <<disposed, connections, slots, usable, default_ttl, maxsize, now, sweep, set_since,
                   ret, budget, engines, args, mgr>>

\* The clock read of the __setitem__ that create_session calls (line 71).
CsSetTime(c) ==
    /\ pc[c] = "cs_set"
    /\ frame' = [frame EXCEPT ![c].t = now]
    /\ pc' = [pc EXCEPT ![c] = "set_store"]
    /\ UNCHANGED <<disposed, connections, slots, usable, default_ttl, maxsize, now, sweep, set_since,
                   ret, ncalls, budget, engines, args, mgr>>

SetStore(c) ==
    /\ pc[c] = "set_store"
    /\ LET k == frame[c].key
       IN /\ connections' = setitem(connections, k, frame[c].pool[1],
                                    life_time_of(frame[c].t, default_ttl))
          /\ slots' = SlotsAfterSet(slots, usable, k)
          /\ usable' = UsableAfterSet(slots, usable, k)
          /\ set_since' = set_since \cup {k}
          /\ IF frame[c].op = "create_session"
             THEN /\ pc' = [pc EXCEPT ![c] = "cs_connect"]
                  /\ UNCHANGED <<frame, ret>>
             ELSE /\ pc' = [pc EXCEPT ![c] = "idle"]
                  /\ frame' = [frame EXCEPT ![c] = IdleFrame]
                  /\ ret' = Return(c, "set", k, frame[c].pool)
    /\ UNCHANGED <<disposed, default_ttl, maxsize, now, sweep, ncalls, budget, engines, args, mgr>>

\* ------------------------------------------------------ foreground: __delitem__
\* `if name in self._connections:` and `del self._connections[name]` are two dict
\* operations.
DelCheck(c, k) ==
    /\ pc[c] = "idle" /\ ncalls < budget
    /\ ncalls' = ncalls + 1
    /\ IF k \in DOMAIN connections
       THEN /\ pc' = [pc EXCEPT ![c] = "del_item"]
            /\ frame' = [frame EXCEPT ![c] = [IdleFrame EXCEPT !.op = "delete", !.key = k]]
            /\ UNCHANGED ret
       ELSE /\ ret' = Return(c, "delete", k, None)
            /\ UNCHANGED <<pc, frame>>
    /\ UNCHANGED <<disposed, connections, slots, usable, default_ttl, maxsize, now, sweep, set_since,
                   budget, engines, args, mgr>>

DelItem(c) ==
    /\ pc[c] = "del_item"
    /\ LET k == frame[c].key
       IN IF k \in DOMAIN connections
          THEN /\ connections' = delitem(connections, k)
               /\ slots' = SlotsAfterDel(slots, k)
               /\ ret' = Return(c, "delete", k, None)
          ELSE /\ ret' = Raise(c, "delete", k, "KeyError")
               /\ UNCHANGED <<connections, slots>>
    /\ pc' = [pc EXCEPT ![c] = "idle"]
    /\ frame' = [frame EXCEPT ![c] = IdleFrame]
    /\ UNCHANGED <<disposed, usable, default_ttl, maxsize, now, sweep, set_since, ncalls, budget, engines,
                   args, mgr>>

\* ------------------------------------------------- cleanup_expired_items (thread)
\* current_time = time.time()
SweepTime ==
    /\ sweep.pc = "time"
    /\ sweep' = [sweep EXCEPT !.pc = "iter", !.current_time = now]
    /\ set_since' = {}
    /\ UNCHANGED <<disposed, connections, slots, usable, default_ttl, maxsize, now, pc, frame, ret,
                   ncalls, budget, engines, args, mgr>>

\* The comprehension creates the iterator over self._connections.items(): it
\* remembers the dict's size and starts at the first slot.
SweepIter ==
    /\ sweep.pc = "iter"
    /\ sweep' = [sweep EXCEPT !.pc = "next",
                              !.it_used = Cardinality(DOMAIN connections),
                              !.it_pos = 0,
                              !.it_len = Cardinality(DOMAIN connections)]
    /\ UNCHANGED <<disposed, connections, slots, usable, default_ttl, maxsize, now, set_since, pc,
                   frame, ret, ncalls, budget, engines, args, mgr>>

\* The comprehension's body for the item the iterator yields from slot i.
Collect(sw, i) ==
    [sw EXCEPT !.it_pos = i,
               !.it_len = sw.it_len - 1,
               !.keys_to_delete =
                   IF IsExpired(connections[slots[i]], sw.current_time)
                   THEN Append(sw.keys_to_delete, slots[i]) ELSE sw.keys_to_delete]

EndOfIteration(sw) ==
    [sw EXCEPT !.pc = "del_check", !.it_used = 0, !.it_pos = 0, !.it_len = 0]

\* One advance of the iterator.  A dict whose size differs from the remembered one
\* raises RuntimeError (dictionary changed size during iteration), which nothing
\* catches: the thread ends.  Otherwise the iterator moves from its position to the
\* next occupied slot of the table as it is now: there is none (the iteration is
\* over), or there is one although the iterator has already yielded as many items
\* as the dict had (RuntimeError: dictionary keys changed during iteration), or
\* its item is yielded.
SweepNext ==
    /\ sweep.pc = "next"
    /\ LET ahead == {i \in 1..Len(slots) : i > sweep.it_pos /\ slots[i] # Tomb}
       IN IF Cardinality(DOMAIN connections) # sweep.it_used
          THEN sweep' = SweepCrash("RuntimeError")
          ELSE IF ahead = {}
               THEN sweep' = EndOfIteration(sweep)
               ELSE IF sweep.it_len = 0
                    THEN sweep' = SweepCrash("RuntimeError")
                    ELSE sweep' = Collect(sweep, CHOOSE i \in ahead : \A j \in ahead : i <= j)
    /\ UNCHANGED <<disposed, connections, slots, usable, default_ttl, maxsize, now, set_since, pc,
                   frame, ret, ncalls, budget, engines, args, mgr>>

\* for key in keys_to_delete: self.__delitem__(key) -- the presence test
SweepDelCheck ==
    /\ sweep.pc = "del_check"
    /\ sweep.keys_to_delete # << >>
    /\ IF Head(sweep.keys_to_delete) \in DOMAIN connections
       THEN sweep' = [sweep EXCEPT !.pc = "del_item"]
       ELSE sweep' = [sweep EXCEPT !.keys_to_delete = Tail(sweep.keys_to_delete)]
    /\ UNCHANGED <<disposed, connections, slots, usable, default_ttl, maxsize, now, set_since, pc, frame,
                   ret, ncalls, budget, engines, args, mgr>>

\* an eviction that also disposes of the evicted engine (closes its pool)
SweepDelItemDisposing ==
    /\ sweep.pc = "del_item"
    /\ LET k == Head(sweep.keys_to_delete)
       IN IF k \in DOMAIN connections
          THEN /\ connections' = delitem(connections, k)
               /\ slots' = SlotsAfterDel(slots, k)
               /\ disposed' = disposed \cup {connections[k].db_pool}
               /\ sweep' = [sweep EXCEPT !.pc = "del_check",
                                         !.keys_to_delete = Tail(sweep.keys_to_delete)]
          ELSE /\ sweep' = SweepCrash("KeyError")
               /\ UNCHANGED <<connections, slots, disposed>>
    /\ UNCHANGED <<usable, default_ttl, maxsize, now, set_since, pc, frame, ret, ncalls,
                   budget, engines, args, mgr>>

\* -- and the del; a KeyError ends the thread
SweepDelItem ==
    /\ sweep.pc = "del_item"
    /\ LET k == Head(sweep.keys_to_delete)
       IN IF k \in DOMAIN connections
          THEN /\ connections' = delitem(connections, k)
               /\ slots' = SlotsAfterDel(slots, k)
               /\ sweep' = [sweep EXCEPT !.pc = "del_check",
                                         !.keys_to_delete = Tail(sweep.keys_to_delete)]
          ELSE /\ sweep' = SweepCrash("KeyError")
               /\ UNCHANGED <<connections, slots>>
    /\ UNCHANGED <<disposed, usable, default_ttl, maxsize, now, set_since, pc, frame, ret, ncalls,
                   budget, engines, args, mgr>>

\* time.sleep(60) is entered
SweepSleep ==
    /\ sweep.pc = "del_check"
    /\ sweep.keys_to_delete = << >>
    /\ sweep' = [sweep EXCEPT !.pc = "sleep", !.wake_at = now + SweepInterval]
    /\ UNCHANGED <<disposed, connections, slots, usable, default_ttl, maxsize, now, set_since, pc, frame,
                   ret, ncalls, budget, engines, args, mgr>>

\* time.sleep(60) returns; while True: goes round
SweepWake ==
    /\ sweep.pc = "sleep"
    /\ now >= sweep.wake_at
    /\ sweep' = SweepIdle("time")
    /\ UNCHANGED <<disposed, connections, slots, usable, default_ttl, maxsize, now, set_since, pc, frame,
                   ret, ncalls, budget, engines, args, mgr>>

\* ------------------------------------------------------------------- the clock
\* The clock moves by one unit, at most MaxFine units past a multiple of the sweep
\* interval, or by a whole interval.
Tick(d) ==
    /\ now + d <= MaxTime
    /\ d = 1 => (now % SweepInterval) < MaxFine
    /\ now' = now + d
    /\ UNCHANGED <<disposed, connections, slots, usable, default_ttl, maxsize, sweep, set_since, pc,
                   frame, ret, ncalls, budget, engines, args, mgr>>

\* ------------------------------------------------- DatabaseManager.__init__
Params == {"main_db_poolsize", "main_db_recycle", "regular_db_poolsize",
           "regular_db_recycle"}

\* the defaults of the signature (lines 18-21)
DefaultOf(name) ==
    CASE name = "main_db_poolsize" -> Some(DefaultMainPoolsize)
      [] name = "main_db_recycle" -> Some(DefaultMainRecycle)
      [] name = "regular_db_poolsize" -> Some(DefaultRegularPoolsize)
      [] name = "regular_db_recycle" -> Some(DefaultRegularRecycle)

\* the value a parameter is bound to: the argument, or the default when omitted
Bound(a, name) == IF name \in a.omitted THEN DefaultOf(name) ELSE a[name]

\* `x or 15`
OrDefault(x, d) == IF Falsy(x) THEN d ELSE x[1]

\* `regular or int(main / 3),` : the right operand is evaluated only for a falsy
\* left one and raises TypeError for main = None; the trailing comma makes a tuple.
RaisesTypeError(regular, main) == Falsy(regular) /\ main = None

OrThird(regular, main) == IF Falsy(regular) THEN <<IntDiv3(main[1])>> ELSE <<regular[1]>>

Unconstructed ==
    [state |-> "new", main_db |-> "", db_url |-> "", main_db_poolsize |-> 0,
     main_db_recycle |-> 0, regular_db_poolsize |-> << >>, regular_db_recycle |-> << >>]

ManagerInit(a) ==
    LET mp == Bound(a, "main_db_poolsize")
        mr == Bound(a, "main_db_recycle")
        rp == Bound(a, "regular_db_poolsize")
        rr == Bound(a, "regular_db_recycle")
    IN IF RaisesTypeError(rp, mp) \/ RaisesTypeError(rr, mr)
       THEN [Unconstructed EXCEPT !.state = "TypeError"]
       ELSE [state |-> "ok", main_db |-> a.main_db, db_url |-> a.db_url,
             main_db_poolsize |-> OrDefault(mp, DefaultMainPoolsize),
             main_db_recycle |-> OrDefault(mr, DefaultMainRecycle),
             regular_db_poolsize |-> OrThird(rp, mp),
             regular_db_recycle |-> OrThird(rr, mr)]

\* DatabaseManager(...): line 33 builds the cache (which starts the cleanup thread)
\* before the sizing fields are computed.
Construct ==
    /\ mgr.state = "new"
    /\ mgr' = ManagerInit(args)
    /\ sweep' = SweepIdle("time")
    /\ UNCHANGED <<disposed, connections, slots, usable, default_ttl, maxsize, now, set_since, pc, frame,
                   ret, ncalls, budget, engines, args>>

\* ------------------------------------------------- DatabaseManager.create_session
\* an engine sized as the main database's for any spelling of its name
create_engine_anycase(m, db_name) ==
    [url |-> <<m.db_url, db_name>>,
     pool_size |-> IF db_name \in {m.main_db, "Main"} THEN m.main_db_poolsize
                   ELSE m.regular_db_poolsize[1],
     pool_recycle |-> IF db_name \in {m.main_db, "Main"} THEN m.main_db_recycle
                      ELSE m.regular_db_recycle[1],
     max_overflow |-> MaxOverflow,
     pool_pre_ping |-> TRUE,
     hide_parameters |-> TRUE]

\* the engine create_engine(...) returns for db_name (lines 62-69)
create_engine(m, db_name) ==
    [url |-> <<m.db_url, db_name>>,
     pool_size |-> IF db_name = m.main_db THEN m.main_db_poolsize
                   ELSE m.regular_db_poolsize[1],
     pool_recycle |-> IF db_name = m.main_db THEN m.main_db_recycle
                      ELSE m.regular_db_recycle[1],
     max_overflow |-> MaxOverflow,
     pool_pre_ping |-> TRUE,
     hide_parameters |-> TRUE]

\* a create_session that does not consult the cache: it builds an engine on
\* every call
CsGetNoCache(c, k) ==
    /\ pc[c] = "idle" /\ ncalls < budget
    /\ mgr.state = "ok"
    /\ ncalls' = ncalls + 1
    /\ frame' = [frame EXCEPT ![c] = [op |-> "create_session", key |-> k,
                                      pool |-> None, t |-> 0]]
    /\ pc' = [pc EXCEPT ![c] = "cs_build"]
    /\ UNCHANGED <<disposed, connections, slots, usable, default_ttl, maxsize, now, sweep, set_since,
                   ret, budget, engines, args, mgr>>

\* cached_db_pool = self.db_cacher.get(db_name); if cached_db_pool: ...
CsGet(c, k) ==
    /\ pc[c] = "idle" /\ ncalls < budget
    /\ mgr.state = "ok"
    /\ ncalls' = ncalls + 1
    /\ LET cached_db_pool == get(connections, k)
       IN /\ frame' = [frame EXCEPT ![c] = [op |-> "create_session", key |-> k,
                                            pool |-> cached_db_pool, t |-> 0]]
          /\ pc' = [pc EXCEPT ![c] = IF cached_db_pool # None THEN "cs_connect"
                                     ELSE "cs_build"]
    /\ UNCHANGED <<disposed, connections, slots, usable, default_ttl, maxsize, now, sweep, set_since,
                   ret, budget, engines, args, mgr>>

\* a build step that, when create_engine fails, leaves an entry without engine
\* (engine 0) under the key before the error leaves the call
CsBuildMarking(c) ==
    /\ pc[c] = "cs_build"
    /\ \/ /\ Len(engines) < MaxPools
          /\ engines' = Append(engines, create_engine(mgr, frame[c].key))
          /\ frame' = [frame EXCEPT ![c].pool = Some(Len(engines) + 1)]
          /\ pc' = [pc EXCEPT ![c] = "cs_set"]
          /\ UNCHANGED <<ret, connections, slots, usable>>
       \/ /\ ret' = Raise(c, "create_session", frame[c].key, "ArgumentError")
          /\ pc' = [pc EXCEPT ![c] = "idle"]
          /\ frame' = [frame EXCEPT ![c] = IdleFrame]
          /\ connections' = setitem(connections, frame[c].key, 0, now)
          /\ slots' = SlotsAfterSet(slots, usable, frame[c].key)
          /\ usable' = UsableAfterSet(slots, usable, frame[c].key)
          /\ UNCHANGED engines
    /\ UNCHANGED <<disposed, default_ttl, maxsize, now, sweep, set_since,
                   ncalls, budget, args, mgr>>

\* db_pool = create_engine(...), or the error it raises for a configuration it
\* rejects, which create_session does not catch
CsBuild(c) ==
    /\ pc[c] = "cs_build"
    /\ \/ /\ Len(engines) < MaxPools
          /\ engines' = Append(engines, create_engine(mgr, frame[c].key))
          /\ frame' = [frame EXCEPT ![c].pool = Some(Len(engines) + 1)]
          /\ pc' = [pc EXCEPT ![c] = "cs_set"]
          /\ UNCHANGED ret
       \/ /\ ret' = Raise(c, "create_session", frame[c].key, "ArgumentError")
          /\ pc' = [pc EXCEPT ![c] = "idle"]
          /\ frame' = [frame EXCEPT ![c] = IdleFrame]
          /\ UNCHANGED engines
    /\ UNCHANGED <<disposed, connections, slots, usable, default_ttl, maxsize, now, sweep, set_since,
                   ncalls, budget, args, mgr>>

\* the errors db_pool.connect() and the session maker raise: SQLAlchemy's own, or
\* any other
ConnectErrors == {"SQLAlchemyError", "Exception"}

\* a handler that raises SQLAlchemy's error for whatever was caught
reraise_translated(e) == "SQLAlchemyError"

\* `except SQLAlchemyError as connection_error: ... raise connection_error` and
\* `except Exception as generic_error: ... raise generic_error`
reraise(e) == e

\* a connection step that, when connect() fails, drops the key's entry before
\* the error is raised again
CsConnectEvicting(c) ==
    /\ pc[c] = "cs_connect"
    /\ LET k == frame[c].key
           db_pool == frame[c].pool[1]
       IN \/ /\ ret' = [Return(c, "create_session", k, Some(db_pool))
                            EXCEPT !.connects = <<db_pool>>]
             /\ UNCHANGED <<connections, slots>>
          \/ \E e \in ConnectErrors :
                /\ ret' = [Raise(c, "create_session", k, reraise(e))
                              EXCEPT !.connects = <<db_pool>>, !.raised = e]
                /\ connections' = [x \in DOMAIN connections \ {k} |-> connections[x]]
                /\ slots' = SlotsAfterDel(slots, k)
    /\ pc' = [pc EXCEPT ![c] = "idle"]
    /\ frame' = [frame EXCEPT ![c] = IdleFrame]
    /\ UNCHANGED <<disposed, usable, default_ttl, maxsize, now, sweep, set_since,
                   ncalls, budget, engines, args, mgr>>

\* _create_pool_connection: one db_pool.connect() on the engine it was given and
\* the session made from it, or the error raised there, logged and raised again
CsConnect(c) ==
    /\ pc[c] = "cs_connect"
    /\ LET k == frame[c].key
           db_pool == frame[c].pool[1]
       IN \/ ret' = [Return(c, "create_session", k, Some(db_pool))
                        EXCEPT !.connects = <<db_pool>>]
          \/ \E e \in ConnectErrors :
                ret' = [Raise(c, "create_session", k, reraise(e))
                           EXCEPT !.connects = <<db_pool>>, !.raised = e]
    /\ pc' = [pc EXCEPT ![c] = "idle"]
    /\ frame' = [frame EXCEPT ![c] = IdleFrame]
    /\ UNCHANGED <<disposed, connections, slots, usable, default_ttl, maxsize, now, sweep, set_since,
                   ncalls, budget, engines, args, mgr>>

\* ---------------------------------------------------------- specifications
DefaultArgs ==
    [main_db |-> "main", db_url |-> "db_url", omitted |-> Params,
     main_db_poolsize |-> None, main_db_recycle |-> None,
     regular_db_poolsize |-> None, regular_db_recycle |-> None]

\* A cache IndividualTTLCache(maxsize, default_ttl) with its cleanup thread
\* started, used directly by the callers.
Init ==
    /\ connections = << >>
    /\ slots = << >>
    /\ usable = UsableFraction(DictMinSize)
    /\ default_ttl \in TTLs
    /\ maxsize \in MaxSizes
    /\ now = 0
    /\ sweep = SweepIdle("time")
    /\ set_since = {}
    /\ pc = [c \in Callers |-> "idle"]
    /\ frame = [c \in Callers |-> IdleFrame]
    /\ ret = NoReturn
    /\ ncalls = 0
    /\ budget = MaxCalls
    /\ engines = << >>
    /\ disposed = {}
    /\ args = DefaultArgs
    /\ mgr = ManagerInit(DefaultArgs)

Sweeper ==
    \/ SweepTime
    \/ SweepIter
    \/ SweepNext
    \/ SweepDelCheck
    \/ SweepDelItem
    \/ SweepSleep
    \/ SweepWake

Next ==
    \/ \E c \in Callers, k \in Keys : Get(c, k)
    \/ \E c \in Callers, k \in Keys : SetTime(c, k, PoolOf(c))
    \/ \E c \in Callers : SetStore(c)
    \/ \E c \in Callers, k \in Keys : DelCheck(c, k)
    \/ \E c \in Callers : DelItem(c)
    \/ Sweeper
    \/ \E d \in TickSteps : Tick(d)

Spec == Init /\ [][Next]_vars

\* A DatabaseManager built with the default sizing (its cache is
\* IndividualTTLCache(), line 33), serving concurrent create_session calls.
InitSession ==
    /\ connections = << >>
    /\ slots = << >>
    /\ usable = UsableFraction(DictMinSize)
    /\ default_ttl = DefaultTTL
    /\ maxsize = DefaultMaxsize
    /\ now = 0
    /\ sweep = SweepIdle("time")
    /\ set_since = {}
    /\ pc = [c \in Callers |-> "idle"]
    /\ frame = [c \in Callers |-> IdleFrame]
    /\ ret = NoReturn
    /\ ncalls = 0
    /\ budget = MaxSessions
    /\ engines = << >>
    /\ disposed = {}
    /\ args = DefaultArgs
    /\ mgr = ManagerInit(DefaultArgs)

NextSession ==
    \/ \E c \in Callers, k \in Keys : Get(c, k)
    \/ \E c \in Callers, k \in Keys : CsGet(c, k)
    \/ \E c \in Callers : CsBuild(c)
    \/ \E c \in Callers : CsSetTime(c)
    \/ \E c \in Callers : SetStore(c)
    \/ \E c \in Callers : CsConnect(c)
    \/ Sweeper
    \/ \E d \in TickSteps : Tick(d)

SpecSession == InitSession /\ [][NextSession]_vars

\* DatabaseManager(main_db, db_url, ...) called with every combination of sizing
\* arguments (given, None, or omitted), then used by one caller.
InitManager ==
    /\ connections = << >>
    /\ slots = << >>
    /\ usable = UsableFraction(DictMinSize)
    /\ default_ttl = DefaultTTL
    /\ maxsize = DefaultMaxsize
    /\ now = 0
    /\ sweep = SweepIdle("unstarted")
    /\ set_since = {}
    /\ pc = [c \in Callers |-> "idle"]
    /\ frame = [c \in Callers |-> IdleFrame]
    /\ ret = NoReturn
    /\ ncalls = 0
    /\ budget = MaxSessions
    /\ engines = << >>
    /\ disposed = {}
    /\ mgr = Unconstructed
    /\ \E om \in SUBSET Params :
       \E mp \in PoolsizeArgs, mr \in RecycleArgs,
          rp \in RegularPoolsizeArgs, rr \in RegularRecycleArgs :
          /\ "main_db_poolsize" \in om => mp = None
          /\ "main_db_recycle" \in om => mr = None
          /\ "regular_db_poolsize" \in om => rp = None
          /\ "regular_db_recycle" \in om => rr = None
          /\ args = [main_db |-> "main", db_url |-> "db_url", omitted |-> om,
                     main_db_poolsize |-> mp, main_db_recycle |-> mr,
                     regular_db_poolsize |-> rp, regular_db_recycle |-> rr]

NextManager ==
    \/ Construct
    \/ \E k \in DbNames : CsGet("c1", k)
    \/ CsBuild("c1")
    \/ CsSetTime("c1")
    \/ SetStore("c1")
    \/ CsConnect("c1")

SpecManager == InitManager /\ [][NextManager]_vars

\* The cache used by one caller through many set and delete calls, so that the
\* dict's entry table fills up and is rebuilt, beside the cleanup thread.
InitChurn ==
    /\ connections = << >>
    /\ slots = << >>
    /\ usable = UsableFraction(DictMinSize)
    /\ default_ttl = 1
    /\ maxsize = DefaultMaxsize
    /\ now = 0
    /\ sweep = SweepIdle("time")
    /\ set_since = {}
    /\ pc = [c \in Callers |-> "idle"]
    /\ frame = [c \in Callers |-> IdleFrame]
    /\ ret = NoReturn
    /\ ncalls = 0
    /\ budget = MaxChurn
    /\ engines = << >>
    /\ disposed = {}
    /\ args = DefaultArgs
    /\ mgr = ManagerInit(DefaultArgs)

NextChurn ==
    \/ \E k \in Keys : SetTime("c1", k, PoolOf("c1"))
    \/ SetStore("c1")
    \/ \E k \in Keys : DelCheck("c1", k)
    \/ DelItem("c1")
    \/ Sweeper
    \/ \E d \in TickSteps : Tick(d)

SpecChurn == InitChurn /\ [][NextChurn]_vars

\* The clock as the cleanup thread's timing sees it: a pass takes far less than
\* the interval it sleeps, so the clock moves, by one interval, only while the
\* thread sleeps (and not past the moment it is due to wake) or after it ended.
LiveTick ==
    /\ now + SweepInterval <= MaxLiveTime
    /\ sweep.pc \in {"sleep", "crashed"}
    /\ sweep.pc = "sleep" => now + SweepInterval <= sweep.wake_at
    /\ now' = now + SweepInterval
    /\ UNCHANGED <<disposed, connections, slots, usable, default_ttl, maxsize, sweep, set_since, pc,
                   frame, ret, ncalls, budget, engines, args, mgr>>

\* The cache with ttl 1 used by one caller that stores engines, beside the
\* cleanup thread, with time passing.
InitLive ==
    /\ connections = << >>
    /\ slots = << >>
    /\ usable = UsableFraction(DictMinSize)
    /\ default_ttl = 1
    /\ maxsize = DefaultMaxsize
    /\ now = 0
    /\ sweep = SweepIdle("time")
    /\ set_since = {}
    /\ pc = [c \in Callers |-> "idle"]
    /\ frame = [c \in Callers |-> IdleFrame]
    /\ ret = NoReturn
    /\ ncalls = 0
    /\ budget = MaxCalls
    /\ engines = << >>
    /\ disposed = {}
    /\ args = DefaultArgs
    /\ mgr = ManagerInit(DefaultArgs)

NextLive ==
    \/ \E k \in Keys : SetTime("c1", k, PoolOf("c1"))
    \/ SetStore("c1")
    \/ Sweeper
    \/ LiveTick

\* The cleanup thread is a running thread: it takes its next step whenever it has
\* one; a store that has read the clock completes; time goes on.
SpecLive ==
    /\ InitLive /\ [][NextLive]_vars
    /\ WF_vars(Sweeper) /\ WF_vars(SetStore("c1")) /\ WF_vars(LiveTick)

\* ================================================================ properties
\* A step of the cleanup thread that removes key k from the mapping.
SweepRemoves(k) ==
    /\ sweep.pc = "del_item"
    /\ k \in DOMAIN connections
    /\ k \notin DOMAIN connections'

\* C1: an entry stays in the cache until delete or until a sweep pass that runs
\* later than its insertion time plus default_ttl: every removal by the cleanup
\* thread happens in a pass whose clock reading is past the entry's timestamp plus
\* default_ttl.
C1_KeptUntilTTL ==
    [][\A k \in Keys :
          SweepRemoves(k) =>
              connections[k].life_time + default_ttl < sweep.current_time]_vars

\* C2: the store of set(K, P) leaves for K an entry whose expiry timestamp is the
\* clock value the call read plus default_ttl.
C2_ExpiryIsNowPlusTTL ==
    [][\A c \in Callers :
          (pc[c] = "set_store" /\ pc'[c] # "set_store") =>
              connections'[frame[c].key].life_time = frame[c].t + default_ttl]_vars

\* C3: when a sweep pass has completed, no entry that was stored before the pass
\* read the clock (and not set again since) with timestamp + default_ttl earlier
\* than that reading is still in the cache.
C3_ExpiredGoneAfterPass ==
    sweep.pc = "sleep" =>
        \A k \in DOMAIN connections \ set_since :
            ~(connections[k].life_time + default_ttl < sweep.current_time)

\* A step that is a whole call: it starts one and leaves no caller inside one.
\* Such a step sets ret.
IsWholeCall(o) == ncalls' # ncalls /\ pc' = pc /\ ret'.op = o

\* A step that is a whole get call.
IsGetStep == IsWholeCall("get")

\* A step of a create_session call that found the engine cached: the lookup that
\* hits, or the connection made from an engine.
IsSessionHitStep ==
    \E c \in Callers :
        \/ pc[c] = "idle" /\ pc'[c] = "cs_connect"
        \/ pc[c] = "cs_connect" /\ pc'[c] = "idle"

\* C4: get, and a create_session that hits the cache, change nothing in the cache:
\* the keys, every entry's engine and every entry's timestamp stay as they were.
C4_GetChangesNothing ==
    [][(IsGetStep \/ IsSessionHitStep) =>
          (connections' = connections /\ slots' = slots)]_vars

\* C4 witness: a get has just returned the cached engine of an entry that was
\* stored at an earlier time and still carries that timestamp.
C4_Witness ==
    /\ ret.op = "get" /\ ret.val # None
    /\ ret.key \in DOMAIN connections
    /\ ret.val = Some(connections[ret.key].db_pool)
    /\ connections[ret.key].life_time < now

\* C5: a delete call that finds its key absent returns without error and leaves
\* the cache unchanged; the del of a delete call removes its key and nothing else.
C5_DeleteExact ==
    [][/\ IsWholeCall("delete") =>
              (ret'.err = "" /\ ret'.key \notin DOMAIN connections
               /\ connections' = connections /\ slots' = slots)
       /\ \A c \in Callers :
              (pc[c] = "del_item" /\ pc'[c] = "idle") =>
                  /\ DOMAIN connections' = DOMAIN connections \ {frame[c].key}
                  /\ \A x \in DOMAIN connections' : connections'[x] = connections[x]]_vars

\* C5 witness: a delete has returned without error, its key is absent and another
\* key's entry is still cached.
C5_Witness ==
    /\ ret.op = "delete" /\ ret.err = ""
    /\ ret.key \notin DOMAIN connections
    /\ DOMAIN connections # {}

\* C6: every engine create_session built has the main sizing (pool size and
\* recycle) when its database name equals main_db exactly, the regular sizing for
\* any other name, and max_overflow 10.
C6_PolicySelection ==
    \A i \in 1..Len(engines) :
        LET e == engines[i]
            db_name == e.url[2]
        IN /\ e.max_overflow = MaxOverflow
           /\ IF db_name = args.main_db
              THEN /\ e.pool_size = mgr.main_db_poolsize
                   /\ e.pool_recycle = mgr.main_db_recycle
              ELSE /\ e.pool_size = mgr.regular_db_poolsize[1]
                   /\ e.pool_recycle = mgr.regular_db_recycle[1]

\* C6 witness: engines were built for the main database and for a name that
\* differs from it only in case, and they are sized differently.
C6_Witness ==
    \E i, j \in 1..Len(engines) :
        /\ engines[i].url[2] = "main"
        /\ engines[j].url[2] = "Main"
        /\ engines[i].pool_size # engines[j].pool_size
        /\ engines[i].pool_recycle # engines[j].pool_recycle

\* A sizing parameter that was not supplied: omitted, or passed as None.
NotSupplied(name) == name \in args.omitted \/ args[name] = None

\* The value of a main sizing parameter, None and omission meaning the default.
EffectiveMain(name) ==
    IF NotSupplied(name) THEN DefaultOf(name)[1] ELSE args[name][1]

\* C7: with regular_db_poolsize and regular_db_recycle not supplied, the
\* constructor ends without error, and every engine built for a database other
\* than main_db has pool_size = floor(main_db_poolsize / 3) and recycle =
\* floor(main_db_recycle / 3) of the effective main values.
C7_RegularIsThirdOfMain ==
    (/\ mgr.state # "new"
     /\ NotSupplied("regular_db_poolsize")
     /\ NotSupplied("regular_db_recycle")) =>
        /\ mgr.state = "ok"
        /\ \A i \in 1..Len(engines) :
               engines[i].url[2] # args.main_db =>
                   /\ engines[i].pool_size = EffectiveMain("main_db_poolsize") \div 3
                   /\ engines[i].pool_recycle = EffectiveMain("main_db_recycle") \div 3

\* C8: a create_session call that built an engine after a miss never stores it
\* over an entry that is in the cache for the same key (the engine another caller
\* built for it).
C8_SingleBuild ==
    [][\A c \in Callers :
          (pc[c] = "set_store" /\ pc'[c] = "cs_connect") =>
              frame[c].key \notin DOMAIN connections]_vars

\* C9: no get, set or delete call ends in an error.
C9_CacheCallsNeverRaise ==
    ret.op \in {"get", "set", "delete"} => ret.err = ""

\* C10: the cleanup thread never ends.
C10_SweeperNeverEnds == sweep.pc # "crashed"

\* A delete call is running (it has tested for its key and not yet returned).
DeleteRunning == \E c \in Callers : frame[c].op = "delete"

\* C11: a get(K) by the caller whose set(K, P) was the last call to end, with no
\* delete running or ended since and less than default_ttl elapsed since the cache
\* was built, returns P, whatever the cleanup thread did in between.
C11_SetThenGet ==
    [][(/\ ret.op = "set" /\ ret.err = ""
        /\ now < default_ttl
        /\ ~DeleteRunning
        /\ IsWholeCall("get") /\ ret'.by = ret.by /\ ret'.key = ret.key) =>
            ret'.val = ret.val]_vars

\* A step that ends a create_session call of caller c in
\* _create_pool_connection.
IsConnectStep(c) == pc[c] = "cs_connect" /\ pc'[c] = "idle"

\* C12: a create_session call calls connect() exactly once, on the engine it
\* holds (the cached one or the one it built); when connect() or the session maker
\* raises, the call ends with that same error, and when nothing is raised it ends
\* without error.
C12_ErrorReachesCaller ==
    [][\A c \in Callers :
          IsConnectStep(c) =>
              /\ ret'.by = c /\ ret'.op = "create_session"
              /\ ret'.connects = <<frame[c].pool[1]>>
              /\ ret'.err = ret'.raised]_vars

\* C12 witness: a create_session call has ended with the error other than
\* SQLAlchemy's that its one connect() raised, while its key's engine is cached.
C12_Witness ==
    /\ ret.op = "create_session"
    /\ ret.raised = "Exception" /\ ret.err = "Exception"
    /\ Len(ret.connects) = 1
    /\ ret.key \in DOMAIN connections
    /\ connections[ret.key].db_pool = ret.connects[1]

\* The lookup step of a create_session call of caller c.
IsLookupStep(c) == pc[c] = "idle" /\ frame'[c].op = "create_session"

\* C13: a create_session(K) call whose lookup finds an entry for K goes straight
\* to the connection with the cached engine, and from its lookup to its return
\* builds no engine and leaves the cache as it is; engines are built only by calls
\* whose lookup found no entry, and such a call has stored the engine it built
\* under K when it goes on to connect.
C13_BuildOnlyOnMiss ==
    [][\A c \in Callers :
          LET k == frame'[c].key
          IN /\ IsLookupStep(c) =>
                    /\ connections' = connections /\ engines' = engines
                    /\ IF k \in DOMAIN connections
                       THEN /\ pc'[c] = "cs_connect"
                            /\ frame'[c].pool = Some(connections[k].db_pool)
                       ELSE pc'[c] = "cs_build"
             /\ (pc[c] = "idle" /\ pc'[c] = "cs_build") => k \notin DOMAIN connections
             /\ pc'[c] # pc[c] =>
                    /\ engines' # engines => (pc[c] = "cs_build" /\ pc'[c] = "cs_set")
                    /\ pc'[c] = "cs_connect" =>
                           \/ IsLookupStep(c) /\ k \in DOMAIN connections
                           \/ /\ pc[c] = "set_store"
                              /\ k \in DOMAIN connections'
                              /\ Some(connections'[k].db_pool) = frame'[c].pool
             /\ IsConnectStep(c) =>
                    (connections' = connections /\ engines' = engines)]_vars

\* C13 witness: two create_session calls for one key have been made, one engine
\* was built, and the call that ended last returned a session of that engine,
\* which is the cached one.
C13_Witness ==
    /\ ncalls = 2 /\ Len(engines) = 1
    /\ \A c \in Callers : pc[c] = "idle"
    /\ ret.op = "create_session" /\ ret.err = ""
    /\ ret.connects = <<1>>
    /\ ret.key \in DOMAIN connections
    /\ connections[ret.key].db_pool = 1

\* the clock values of the timed runs
Stamps == {t \in 0..MaxLiveTime : t % SweepInterval = 0}

\* C14: an entry whose expiry time (its timestamp plus default_ttl) has passed,
\* with a sweep interval of the run's time still to come, is eventually removed
\* or set again: it does not stay in the cache forever.
C14_ExpiredEventuallyRemoved ==
    \A k \in Keys : \A t \in Stamps :
        (/\ k \in DOMAIN connections
         /\ connections[k].life_time = t
         /\ t + default_ttl < now
         /\ now + SweepInterval <= MaxLiveTime)
            ~> (k \notin DOMAIN connections \/ connections[k].life_time # t)

\* C15: a get(K) that finds an entry for K in the mapping returns that entry's
\* engine, whatever the entry's timestamp and the clock, and leaves the entry in
\* place; it returns None only when the mapping has no entry for K.
C15_GetIgnoresExpiry ==
    [][IsWholeCall("get") =>
          /\ ret'.err = ""
          /\ ret'.val = IF ret'.key \in DOMAIN connections
                        THEN Some(connections[ret'.key].db_pool) ELSE None
          /\ connections' = connections]_vars

\* C15 witness: a get has returned the engine of an entry whose timestamp plus
\* default_ttl is earlier than the clock, and the entry is still cached.
C15_Witness ==
    /\ ret.op = "get" /\ ret.val # None
    /\ ret.key \in DOMAIN connections
    /\ ret.val = Some(connections[ret.key].db_pool)
    /\ connections[ret.key].life_time + default_ttl < now

\* C16: the store of a set(K, P) call adds K to the keys the mapping had, whatever
\* their number, with P as K's engine, leaves every other key's entry as it was,
\* and the call returns without error.
C16_SetIgnoresMaxsize ==
    [][\A c \in Callers :
          (pc[c] = "set_store" /\ pc'[c] # "set_store") =>
              LET k == frame[c].key
              IN /\ DOMAIN connections' = DOMAIN connections \cup {k}
                 /\ connections'[k].db_pool = frame[c].pool[1]
                 /\ \A x \in DOMAIN connections \ {k} : connections'[x] = connections[x]
                 /\ frame[c].op = "set" =>
                        (ret' = Return(c, "set", k, frame[c].pool))]_vars

\* C16 witness: a set has returned without error, its key is cached, and the
\* cache holds more entries than maxsize.
C16_Witness ==
    /\ ret.op = "set" /\ ret.err = ""
    /\ ret.key \in DOMAIN connections
    /\ Cardinality(DOMAIN connections) > maxsize

\* A step in which create_engine fails in the create_session call of caller c.
IsBuildFailure(c) == pc[c] = "cs_build" /\ pc'[c] = "idle"

\* C17: when create_engine fails in a create_session(K) call, the call ends with
\* that error without having called connect(), and neither its lookup nor the
\* failing build changes the cache or adds an engine.
C17_BuildFailureIsNeutral ==
    [][\A c \in Callers :
          /\ (IsLookupStep(c) /\ pc'[c] = "cs_build") =>
                 (connections' = connections /\ slots' = slots /\ engines' = engines)
          /\ IsBuildFailure(c) =>
                 /\ ret' = Raise(c, "create_session", frame[c].key, "ArgumentError")
                 /\ ret'.connects = << >>
                 /\ connections' = connections /\ slots' = slots
                 /\ engines' = engines]_vars

\* C17 witness: a create_session call has ended with create_engine's error and no
\* connect(); its key is not cached, while another key's engine is.
C17_Witness ==
    /\ ret.op = "create_session" /\ ret.err = "ArgumentError"
    /\ ret.connects = << >>
    /\ ret.key \notin DOMAIN connections
    /\ DOMAIN connections # {}

\* C18: no engine is ever disposed of: whatever get, set, delete and the cleanup
\* thread have done to the mapping, every engine handed to the cache is open.
C18_NoPoolClosed == disposed = {}

\* C18 witness: the only call made was a set, it returned, and the cleanup thread
\* has since evicted the entry (its slot in the dict's table is empty); the engine
\* that was stored is not disposed of.
C18_Witness ==
    /\ ncalls = 1 /\ ret.op = "set" /\ ret.err = ""
    /\ connections = << >>
    /\ \E i \in 1..Len(slots) : slots[i] = Tomb
    /\ ret.val[1] \notin disposed

\* C19: every entry the cleanup thread removes is expired at the clock value its
\* pass read: the entry it deletes has a timestamp earlier than current_time, so
\* an entry stored anew after the pass collected its key is not removed.
C19_SweepRemovesOnlyExpired ==
    [][\A k \in Keys :
          SweepRemoves(k) => IsExpired(connections[k], sweep.current_time)]_vars

\* C20: a connection failure leaves the cache as it is, so the engine a
\* create_session(K) call built and stored stays cached under K when that call
\* fails in connect(); the lookup of a create_session(K) that follows such a
\* failure finds that engine and goes to the connection with it, building none.
C20_FailedConnectKeepsEntry ==
    [][\A c \in Callers :
          /\ (IsConnectStep(c) /\ ret'.raised # "") =>
                 /\ connections' = connections
                 /\ frame[c].key \in DOMAIN connections
                 /\ connections[frame[c].key].db_pool = frame[c].pool[1]
          /\ (/\ ret.op = "create_session" /\ ret.raised # ""
              /\ IsLookupStep(c) /\ frame'[c].key = ret.key) =>
                 /\ pc'[c] = "cs_connect"
                 /\ frame'[c].pool = Some(ret.connects[1])
                 /\ engines' = engines]_vars

\* C20 witness: the first create_session call built engine 1 and failed in
\* connect(); the second call for the same key is about to connect with engine 1,
\* which is still the only engine built.
C20_Witness ==
    /\ ncalls = 2 /\ Len(engines) = 1
    /\ ret.op = "create_session" /\ ret.raised # "" /\ ret.connects = <<1>>
    /\ pc["c1"] = "cs_connect"
    /\ frame["c1"].key = ret.key
    /\ frame["c1"].pool = Some(1)
    /\ connections[ret.key].db_pool = 1

====
